---- MODULE Spec2Model ----
(***************************************************************************)
(* A model of SopsSecretGenerator.go (kustomize-sopssecretgenerator).      *)
(*                                                                         *)
(* Go strings and []byte values are sequences of byte values 0..255.       *)
(* A kvMap is a function whose DOMAIN is the set of keys present.          *)
(* A Go error is the sequence of its message frames, outermost first;      *)
(* the nil error is the empty sequence.                                    *)
(***************************************************************************)
EXTENDS Integers, Sequences, FiniteSets, TLC

VARIABLES pc,        \* position of the operation the specification runs
          source,    \* parseFileName: the descriptor given
          parsed,    \* parseFileName: its result
          content,   \* parseDotEnvContent: the decrypted content given
          rest,      \* parseDotEnvContent: what the scanner has not consumed
          lineNum,   \* parseDotEnvContent: lineNum
          line,      \* parseDotEnvContent: the line handed to parseDotEnvLine last
          data,      \* parseDotEnvContent: the kvMap being filled
          err,       \* parseDotEnvContent: the error returned
          doc,       \* processSopsSecretGenerator: the input document
          result,    \* processSopsSecretGenerator: what it returned and what it read
          rl,        \* generateKRMManifest: the resource list (Items, Results)
          input,     \* generateKRMManifest: rl.Items as given
          idx,       \* generateKRMManifest: position of the range loop
          generatedSecrets, \* generateKRMManifest: generatedSecrets
          calls,     \* generateKRMManifest: documents handed on, in order
          ret        \* generateKRMManifest: its return values

vars == <<pc, source, parsed, content, rest, lineNum, line, data, err, doc,
          result, rl, input, idx, generatedSecrets, calls, ret>>

----------------------------------------------------------------------------
(* Bounds of the model *)

MaxNameLen == 4
MaxPieces == 3
MaxSources == 3
MaxDocs == 3

----------------------------------------------------------------------------
(* Sequences of bytes *)

\* the sequences over S of length n, and of length n at most
SeqsOfLen(S, n) == [1..n -> S]

SeqsUpTo(S, n) == UNION {SeqsOfLen(S, i) : i \in 0..n}

RECURSIVE Concat(_)
Concat(ss) == IF ss = <<>> THEN <<>> ELSE Head(ss) \o Concat(Tail(ss))

HasPrefix(s, p) == Len(s) >= Len(p) /\ SubSeq(s, 1, Len(p)) = p

Drop(s, n) == SubSeq(s, n + 1, Len(s))

Count(s, b) == Cardinality({i \in 1..Len(s) : s[i] = b})

\* bytes.IndexByte / strings.Index for one byte: the first position (from 1) of b, 0 if none
IndexByte(s, b) ==
    IF \E i \in 1..Len(s) : s[i] = b
    THEN CHOOSE i \in 1..Len(s) : s[i] = b /\ \A j \in 1..(i - 1) : s[j] # b
    ELSE 0

LastIndexByte(s, b) ==
    IF \E i \in 1..Len(s) : s[i] = b
    THEN CHOOSE i \in 1..Len(s) : s[i] = b /\ \A j \in (i + 1)..Len(s) : s[j] # b
    ELSE 0

\* strings.Split(s, sep) for a one-byte separator: Count(s, sep) + 1 components
RECURSIVE Split(_, _)
Split(s, sep) ==
    LET i == IndexByte(s, sep)
    IN  IF i = 0 THEN <<s>>
        ELSE <<SubSeq(s, 1, i - 1)>> \o Split(Drop(s, i), sep)

\* strings.SplitN(s, sep, 2): at most two components, split at the first sep
SplitN2(s, sep) ==
    LET i == IndexByte(s, sep)
    IN  IF i = 0 THEN <<s>> ELSE <<SubSeq(s, 1, i - 1), Drop(s, i)>>

\* kvMap assignment  m[k] = v
Put(m, k, v) == [x \in (DOMAIN m) \cup {k} |-> IF x = k THEN v ELSE m[x]]

EmptyMap == [x \in {} |-> <<>>]

----------------------------------------------------------------------------
(* Errors *)

nil == <<>>

Frame(msg, arg) == [msg |-> msg, arg |-> arg]

\* errors.New / errors.Errorf / fmt.Errorf
NewError(msg, arg) == <<Frame(msg, arg)>>

\* errors.Wrap / errors.Wrapf
Wrap(e, msg, arg) == <<Frame(msg, arg)>> \o e

----------------------------------------------------------------------------
(* base64.StdEncoding.EncodeToString *)

B64Char(i) ==
    IF i < 26 THEN 65 + i
    ELSE IF i < 52 THEN 97 + (i - 26)
    ELSE IF i < 62 THEN 48 + (i - 52)
    ELSE IF i = 62 THEN 43 ELSE 47

RECURSIVE Base64(_)
Base64(b) ==
    IF Len(b) = 0 THEN <<>>
    ELSE IF Len(b) = 1 THEN
        <<B64Char(b[1] \div 4), B64Char((b[1] % 4) * 16), 61, 61>>
    ELSE IF Len(b) = 2 THEN
        <<B64Char(b[1] \div 4),
          B64Char((b[1] % 4) * 16 + b[2] \div 16),
          B64Char((b[2] % 16) * 4), 61>>
    ELSE
        <<B64Char(b[1] \div 4),
          B64Char((b[1] % 4) * 16 + b[2] \div 16),
          B64Char((b[2] % 16) * 4 + b[3] \div 64),
          B64Char(b[3] % 64)>> \o Base64(Drop(b, 3))

----------------------------------------------------------------------------
(* parseFileName *)

\* path.Base of the Go standard library
PathBase(p) ==
    IF p = <<>> THEN <<46>>
    ELSE LET n == IF \E i \in 1..Len(p) : p[i] # 47
                  THEN CHOOSE i \in 1..Len(p) : p[i] # 47 /\ \A j \in (i + 1)..Len(p) : p[j] = 47
                  ELSE 0
             stripped == SubSeq(p, 1, n)
             last == Drop(stripped, LastIndexByte(stripped, 47))
         IN  IF last = <<>> THEN <<47>> ELSE last

ParseFileNameNoKeyCheck(src) ==
    LET components == Split(src, 61)
    IN  IF Len(components) = 1
        THEN [key |-> PathBase(src), fn |-> src, err |-> nil]
        ELSE IF Len(components) = 2
        THEN IF components[2] = <<>>
             THEN [key |-> <<>>, fn |-> <<>>,
                   err |-> NewError("file path for key name missing", components[1])]
             ELSE [key |-> components[1], fn |-> components[2], err |-> nil]
        ELSE [key |-> <<>>, fn |-> <<>>,
              err |-> NewError("key names or file paths cannot contain '='", <<>>)]

ParseFileName(src) ==
    LET components == Split(src, 61)
    IN  IF Len(components) = 1
        THEN [key |-> PathBase(src), fn |-> src, err |-> nil]
        ELSE IF Len(components) = 2
        THEN IF components[1] = <<>>
             THEN [key |-> <<>>, fn |-> <<>>,
                   err |-> NewError("key name for file path missing", components[2])]
             ELSE IF components[2] = <<>>
             THEN [key |-> <<>>, fn |-> <<>>,
                   err |-> NewError("file path for key name missing", components[1])]
             ELSE [key |-> components[1], fn |-> components[2], err |-> nil]
        ELSE [key |-> <<>>, fn |-> <<>>,
              err |-> NewError("key names or file paths cannot contain '='", <<>>)]

----------------------------------------------------------------------------
(* UTF-8 (unicode/utf8, unicode) *)

utf8bom == <<239, 187, 191>>

IsCont(b) == b >= 128 /\ b <= 191

\* The number of bytes of the well-formed encoding s starts with, 0 if it starts with none
RuneLen(s) ==
    IF s = <<>> THEN 0
    ELSE IF s[1] < 128 THEN 1
    ELSE IF s[1] >= 194 /\ s[1] <= 223
         THEN IF Len(s) >= 2 /\ IsCont(s[2]) THEN 2 ELSE 0
    ELSE IF s[1] >= 224 /\ s[1] <= 239
         THEN IF /\ Len(s) >= 3
                 /\ IsCont(s[2])
                 /\ IsCont(s[3])
                 /\ (s[1] = 224 => s[2] >= 160)
                 /\ (s[1] = 237 => s[2] <= 159)
              THEN 3 ELSE 0
    ELSE IF s[1] >= 240 /\ s[1] <= 244
         THEN IF /\ Len(s) >= 4
                 /\ IsCont(s[2])
                 /\ IsCont(s[3])
                 /\ IsCont(s[4])
                 /\ (s[1] = 240 => s[2] >= 144)
                 /\ (s[1] = 244 => s[2] <= 143)
              THEN 4 ELSE 0
    ELSE 0

\* utf8.Valid
RECURSIVE Utf8Valid(_)
Utf8Valid(s) ==
    IF s = <<>> THEN TRUE
    ELSE LET n == RuneLen(s)
         IN  IF n = 0 THEN FALSE ELSE Utf8Valid(Drop(s, n))

\* utf8.DecodeRune on a well-formed prefix of n bytes
RuneValue(s, n) ==
    IF n = 1 THEN s[1]
    ELSE IF n = 2 THEN (s[1] % 32) * 64 + (s[2] % 64)
    ELSE IF n = 3 THEN (s[1] % 16) * 4096 + (s[2] % 64) * 64 + (s[3] % 64)
    ELSE (s[1] % 8) * 262144 + (s[2] % 64) * 4096 + (s[3] % 64) * 64 + (s[4] % 64)

\* unicode.IsSpace
IsSpace(r) ==
    \/ r \in {9, 10, 11, 12, 13, 32, 133, 160, 5760, 8232, 8233, 8239, 8287, 12288}
    \/ (r >= 8192 /\ r <= 8202)

\* bytes.TrimLeftFunc(line, unicode.IsSpace); an ill-formed byte decodes to U+FFFD, no space
RECURSIVE TrimLeftSpace(_)
TrimLeftSpace(s) ==
    LET n == RuneLen(s)
    IN  IF n > 0 /\ IsSpace(RuneValue(s, n)) THEN TrimLeftSpace(Drop(s, n)) ELSE s

\* bytes.TrimPrefix
TrimPrefix(s, p) == IF HasPrefix(s, p) THEN Drop(s, Len(p)) ELSE s

----------------------------------------------------------------------------
(* bufio.Scanner with bufio.ScanLines over a []byte.  A content is run-length  *)
(* encoded: a sequence of runs <<b, n>>, n >= 1 copies of byte b, so that a    *)
(* line beyond the scanner's buffer is a value of the model.                   *)

MaxScanTokenSize == 65536

RunLen(runs) ==
    LET RECURSIVE Sum(_)
        Sum(i) == IF i = 0 THEN 0 ELSE runs[i][2] + Sum(i - 1)
    IN  Sum(Len(runs))

Expand(runs) == Concat([i \in 1..Len(runs) |-> [j \in 1..runs[i][2] |-> runs[i][1]]])

Runs(bytes) == [i \in 1..Len(bytes) |-> <<bytes[i], 1>>]

\* the position of the first run of newlines, 0 if none
NewlineRun(runs) ==
    IF \E i \in 1..Len(runs) : runs[i][1] = 10
    THEN CHOOSE i \in 1..Len(runs) : runs[i][1] = 10 /\ \A j \in 1..(i - 1) : runs[j][1] # 10
    ELSE 0

\* the bytes up to the next newline, and what follows that newline
RawLine(runs) ==
    LET i == NewlineRun(runs) IN IF i = 0 THEN runs ELSE SubSeq(runs, 1, i - 1)

AfterLine(runs) ==
    LET i == NewlineRun(runs)
    IN  IF i = 0 THEN <<>>
        ELSE IF runs[i][2] > 1 THEN <<<<10, runs[i][2] - 1>>>> \o Drop(runs, i)
        ELSE Drop(runs, i)

\* dropCR of bufio
DropCR(runs) ==
    IF runs # <<>> /\ runs[Len(runs)][1] = 13
    THEN IF runs[Len(runs)][2] > 1
         THEN SubSeq(runs, 1, Len(runs) - 1) \o <<<<13, runs[Len(runs)][2] - 1>>>>
         ELSE SubSeq(runs, 1, Len(runs) - 1)
    ELSE runs

\* scanner.Scan(): ok with the token scanner.Bytes(), or not ok with scanner.Err()
Scan(runs) ==
    IF runs = <<>> THEN [ok |-> FALSE, token |-> <<>>, rest |-> <<>>, err |-> nil]
    ELSE IF RunLen(RawLine(runs)) >= MaxScanTokenSize
    THEN [ok |-> FALSE, token |-> <<>>, rest |-> runs,
          err |-> NewError("bufio.Scanner: token too long", <<>>)]
    ELSE [ok |-> TRUE, token |-> Expand(DropCR(RawLine(runs))), rest |-> AfterLine(runs),
          err |-> nil]

----------------------------------------------------------------------------
(* parseDotEnvLine, parseDotEnvContent *)

ParseDotEnvLineKeepComments(l, d) ==
    IF ~Utf8Valid(l) THEN [data |-> d, err |-> NewError("invalid UTF-8 bytes", l)]
    ELSE LET t == TrimLeftSpace(l)
             pair == SplitN2(t, 61)
         IN  IF t = <<>> THEN [data |-> d, err |-> nil]
             ELSE IF Len(pair) # 2
             THEN [data |-> d, err |-> NewError("requires value", t)]
             ELSE [data |-> Put(d, pair[1], Base64(pair[2])), err |-> nil]

ParseDotEnvLineSplitAll(l, d) ==
    IF ~Utf8Valid(l) THEN [data |-> d, err |-> NewError("invalid UTF-8 bytes", l)]
    ELSE LET t == TrimLeftSpace(l)
             pair == Split(t, 61)
         IN  IF t = <<>> \/ t[1] = 35 THEN [data |-> d, err |-> nil]
             ELSE IF Len(pair) < 2
             THEN [data |-> d, err |-> NewError("requires value", t)]
             ELSE [data |-> Put(d, pair[1], Base64(pair[2])), err |-> nil]

ParseDotEnvLine(l, d) ==
    IF ~Utf8Valid(l) THEN [data |-> d, err |-> NewError("invalid UTF-8 bytes", l)]
    ELSE LET t == TrimLeftSpace(l)
             pair == SplitN2(t, 61)
         IN  IF t = <<>> \/ t[1] = 35 THEN [data |-> d, err |-> nil]
             ELSE IF Len(pair) # 2
             THEN [data |-> d, err |-> NewError("requires value", t)]
             ELSE [data |-> Put(d, pair[1], Base64(pair[2])), err |-> nil]

\* the line parseDotEnvContent hands to parseDotEnvLine: scanner.Bytes(), less the
\* byte order mark on line 0
StripBOMEveryLine(token, n) == TrimPrefix(token, utf8bom)

StripBOM(token, n) == IF n = 0 THEN TrimPrefix(token, utf8bom) ELSE token

\* the loop of parseDotEnvContent from the scanner state runs, lineNum n, data d
RECURSIVE ScanLoop(_, _, _)
ScanLoop(runs, n, d) ==
    LET s == Scan(runs)
        r == ParseDotEnvLine(StripBOM(s.token, n), d)
    IN  IF ~s.ok THEN [data |-> d, err |-> s.err]
        ELSE IF r.err # nil THEN [data |-> r.data, err |-> Wrap(r.err, "line", <<n>>)]
        ELSE ScanLoop(s.rest, n + 1, r.data)

ParseDotEnvContent(c, d) == ScanLoop(c, 0, d)

----------------------------------------------------------------------------
(* The files of the working directory, and the sops engine.  A path that is not *)
(* listed does not exist.  plain is what decrypt.DataWithFormat returns for the *)
(* file when decrypts is TRUE.                                                  *)

ExtEnv == <<46, 101, 110, 118>>
ExtYaml == <<46, 121, 97, 109, 108>>
ExtYml == <<46, 121, 109, 108>>
ExtJson == <<46, 106, 115, 111, 110>>
ExtIni == <<46, 105, 110, 105>>
ExtTxt == <<46, 116, 120, 116>>

AEnv == <<97>> \o ExtEnv       \* a.env    A=1 / A=2 / B=1
BEnv == <<98>> \o ExtEnv       \* b.env    #c / A=3
CEnv == <<99>> \o ExtEnv       \* c.env    C=1 / B        (line 1 has no value)
EEnv == <<101>> \o ExtEnv      \* e.env    sops cannot decrypt it
XEnv == <<120>> \o ExtEnv      \* x.env    does not exist
YYaml == <<121>> \o ExtYaml    \* y.yaml   A: 4
JJson == <<106>> \o ExtJson    \* j.json   {"J":"5"}
IIni == <<105>> \o ExtIni      \* i.ini    [s] / I=6
TTxt == <<116>> \o ExtTxt      \* t.txt    s
DTTxt == <<100, 47>> \o TTxt   \* d/t.txt  d

YamlPlain == <<65, 58, 32, 52, 10>>
JsonPlain == <<123, 34, 74, 34, 58, 34, 53, 34, 125>>

FS ==
    (AEnv :> [decrypts |-> TRUE, plain |-> <<65, 61, 49, 10, 65, 61, 50, 10, 66, 61, 49>>])
    @@ (BEnv :> [decrypts |-> TRUE, plain |-> <<35, 99, 10, 65, 61, 51, 10>>])
    @@ (CEnv :> [decrypts |-> TRUE, plain |-> <<67, 61, 49, 10, 66>>])
    @@ (EEnv :> [decrypts |-> FALSE, plain |-> <<>>])
    @@ (YYaml :> [decrypts |-> TRUE, plain |-> YamlPlain])
    @@ (JJson :> [decrypts |-> TRUE, plain |-> JsonPlain])
    @@ (IIni :> [decrypts |-> TRUE, plain |-> <<91, 115, 93, 10, 73, 61, 54>>])
    @@ (TTxt :> [decrypts |-> TRUE, plain |-> <<115, 10>>])
    @@ (DTTxt :> [decrypts |-> TRUE, plain |-> <<100>>])

\* what the program did to the outside, in order
ReadFile(p) == [op |-> "os.ReadFile", path |-> p]
Decrypt(p) == [op |-> "decrypt.DataWithFormat", path |-> p]

HasSuffix(s, x) == Len(s) >= Len(x) /\ SubSeq(s, Len(s) - Len(x) + 1, Len(s)) = x

\* formats.FormatForPath of sops
FormatForPath(p) ==
    IF HasSuffix(p, ExtYaml) \/ HasSuffix(p, ExtYml) THEN "Yaml"
    ELSE IF HasSuffix(p, ExtJson) THEN "Json"
    ELSE IF HasSuffix(p, ExtEnv) THEN "Dotenv"
    ELSE IF HasSuffix(p, ExtIni) THEN "Ini"
    ELSE "Binary"

\* yaml.Unmarshal and json.Unmarshal into a kvMap, on the contents of the files above
YAMLUnmarshal(c) ==
    IF c = YamlPlain THEN [d |-> (<<65>> :> <<52>>), err |-> nil]
    ELSE [d |-> EmptyMap, err |-> NewError("yaml: unmarshal errors", c)]

JSONUnmarshal(c) ==
    IF c = JsonPlain THEN [d |-> (<<74>> :> <<53>>), err |-> nil]
    ELSE [d |-> EmptyMap, err |-> NewError("invalid character", c)]

----------------------------------------------------------------------------
(* decryptFile, parseEnvSource(s), parseFileSource(s), parseInput.  Each gives *)
(* the kvMap as it left it, its error, and what it read.                        *)

DecryptFile(p) ==
    IF p \notin DOMAIN FS
    THEN [plain |-> <<>>, io |-> <<ReadFile(p)>>,
          err |-> Wrap(NewError("no such file or directory", p), "could not read file", <<>>)]
    ELSE IF ~FS[p].decrypts
    THEN [plain |-> <<>>, io |-> <<ReadFile(p), Decrypt(p)>>,
          err |-> Wrap(NewError("sops metadata not found", p), "sops could not decrypt", <<>>)]
    ELSE [plain |-> FS[p].plain, io |-> <<ReadFile(p), Decrypt(p)>>, err |-> nil]

\* for k, v := range d { data[k] = base64(v) }
PutAll(d, m) ==
    [x \in (DOMAIN d) \cup (DOMAIN m) |-> IF x \in DOMAIN m THEN Base64(m[x]) ELSE d[x]]

ParseYAMLContent(c, d) ==
    LET u == YAMLUnmarshal(c)
    IN  IF u.err # nil THEN [data |-> d, err |-> u.err]
        ELSE [data |-> PutAll(d, u.d), err |-> nil]

ParseJSONContent(c, d) ==
    LET u == JSONUnmarshal(c)
    IN  IF u.err # nil THEN [data |-> d, err |-> u.err]
        ELSE [data |-> PutAll(d, u.d), err |-> nil]

ParseEnvSource(src, d) ==
    LET dec == DecryptFile(src)
        f == FormatForPath(src)
        r == IF f = "Dotenv" THEN ParseDotEnvContent(Runs(dec.plain), d)
             ELSE IF f = "Yaml" THEN ParseYAMLContent(dec.plain, d)
             ELSE IF f = "Json" THEN ParseJSONContent(dec.plain, d)
             ELSE [data |-> d,
                   err |-> NewError("unknown file format, use dotenv, yaml or json", <<>>)]
    IN  IF dec.err # nil THEN [data |-> d, err |-> dec.err, io |-> dec.io]
        ELSE [data |-> r.data, err |-> r.err, io |-> dec.io]

\* the result more of the sources that follow, after a source that read io
After(io, more) == [data |-> more.data, err |-> more.err, io |-> io \o more.io]

\* r is what parseEnvSource returned for the first of sources
RECURSIVE ParseEnvSources(_, _), EnvSourcesFrom(_, _)
EnvSourcesFrom(r, sources) ==
    IF r.err # nil
    THEN [data |-> r.data, io |-> r.io, err |-> Wrap(r.err, "env source", Head(sources))]
    ELSE After(r.io, ParseEnvSources(Tail(sources), r.data))

ParseEnvSources(sources, d) ==
    IF sources = <<>> THEN [data |-> d, err |-> nil, io |-> <<>>]
    ELSE EnvSourcesFrom(ParseEnvSource(Head(sources), d), sources)

ParseFileSourceKeepFirst(src, d) ==
    LET n == ParseFileName(src)
        dec == DecryptFile(n.fn)
    IN  IF n.err # nil THEN [data |-> d, err |-> n.err, io |-> <<>>]
        ELSE IF dec.err # nil THEN [data |-> d, err |-> dec.err, io |-> dec.io]
        ELSE [data |-> IF n.key \in DOMAIN d THEN d ELSE Put(d, n.key, Base64(dec.plain)),
              err |-> nil, io |-> dec.io]

\* a file source of a dotenv, YAML or JSON path has its keys and values extracted
ParseFileSourceExtracts(src, d) ==
    LET n == ParseFileName(src)
        dec == DecryptFile(n.fn)
    IN  IF n.err # nil THEN [data |-> d, err |-> n.err, io |-> <<>>]
        ELSE IF dec.err # nil THEN [data |-> d, err |-> dec.err, io |-> dec.io]
        ELSE IF FormatForPath(n.fn) \in {"Dotenv", "Yaml", "Json"}
        THEN ParseEnvSource(n.fn, d)
        ELSE [data |-> Put(d, n.key, Base64(dec.plain)), err |-> nil, io |-> dec.io]

ParseFileSource(src, d) ==
    LET n == ParseFileName(src)
        dec == DecryptFile(n.fn)
    IN  IF n.err # nil THEN [data |-> d, err |-> n.err, io |-> <<>>]
        ELSE IF dec.err # nil THEN [data |-> d, err |-> dec.err, io |-> dec.io]
        ELSE [data |-> Put(d, n.key, Base64(dec.plain)), err |-> nil, io |-> dec.io]

\* r is what parseFileSource returned for the first of sources
RECURSIVE ParseFileSources(_, _), FileSourcesFrom(_, _)
FileSourcesFrom(r, sources) ==
    IF r.err # nil
    THEN [data |-> r.data, io |-> r.io, err |-> Wrap(r.err, "file source", Head(sources))]
    ELSE After(r.io, ParseFileSources(Tail(sources), r.data))

ParseFileSources(sources, d) ==
    IF sources = <<>> THEN [data |-> d, err |-> nil, io |-> <<>>]
    ELSE FileSourcesFrom(ParseFileSource(Head(sources), d), sources)

\* what parseInput returns when parseEnvSources returned e and parseFileSources f;
\* data is nil when an error is returned
InputResult(e, f) ==
    IF f.err # nil THEN [data |-> EmptyMap, err |-> f.err, io |-> e.io \o f.io]
    ELSE [data |-> f.data, err |-> nil, io |-> e.io \o f.io]

\* the first error is kept, and the file sources are gone through all the same
FileSourcesAfterKeepGoing(e, files) ==
    IF e.err # nil
    THEN [data |-> EmptyMap, err |-> e.err,
          io |-> e.io \o ParseFileSources(files, e.data).io]
    ELSE InputResult(e, ParseFileSources(files, e.data))

\* e is what parseEnvSources returned
FileSourcesAfter(e, files) ==
    IF e.err # nil THEN [data |-> EmptyMap, err |-> e.err, io |-> e.io]
    ELSE InputResult(e, ParseFileSources(files, e.data))

ParseInput(in) == FileSourcesAfter(ParseEnvSources(in.envs, EmptyMap), in.files)

----------------------------------------------------------------------------
(* readInput, generateSecret, processSopsSecretGenerator *)

apiVersion == "kustomize.freightdog.com/v1"
kind == "SopsSecretGenerator"

LocalConfig == "config.kubernetes.io/local-config"
Function == "config.kubernetes.io/function"
NeedsHash == "kustomize.config.k8s.io/needs-hash"
BehaviorKey == "kustomize.config.k8s.io/behavior"

stripAnnotations == {LocalConfig, Function}

\* the zero Secret, and the empty output string
NoSecret == [apiVersion |-> "", kind |-> "", name |-> "",
             annotations |-> EmptyMap, data |-> EmptyMap]

\* A manifest is what yaml.Unmarshal makes of it: the fields of the
\* SopsSecretGenerator it fills, or no such value (unmarshals FALSE)
ReadInputNoNameCheck(manifest) ==
    IF ~manifest.unmarshals
    THEN [err |-> NewError("yaml: unmarshal errors", <<>>)]
    ELSE IF manifest.apiVersion # apiVersion \/ manifest.kind # kind
    THEN [err |-> NewError("input must be apiVersion, kind", <<>>)]
    ELSE [err |-> nil]

ReadInput(manifest) ==
    IF ~manifest.unmarshals
    THEN [err |-> NewError("yaml: unmarshal errors", <<>>)]
    ELSE IF manifest.apiVersion # apiVersion \/ manifest.kind # kind
    THEN [err |-> NewError("input must be apiVersion, kind", <<>>)]
    ELSE IF manifest.name = ""
    THEN [err |-> NewError("input must contain metadata.name value", <<>>)]
    ELSE [err |-> nil]

\* the annotations of the Secret
AnnotationsKeepAll(in) ==
    LET copied == in.annotations
        hashed == IF ~in.disableNameSuffixHash THEN Put(copied, NeedsHash, "true") ELSE copied
    IN  IF in.behavior # "" THEN Put(hashed, BehaviorKey, in.behavior) ELSE hashed

AnnotationsNoHash(in) ==
    LET copied == [k \in (DOMAIN in.annotations) \ stripAnnotations |-> in.annotations[k]]
    IN  IF in.behavior # "" THEN Put(copied, BehaviorKey, in.behavior) ELSE copied

Annotations(in) ==
    LET copied == [k \in (DOMAIN in.annotations) \ stripAnnotations |-> in.annotations[k]]
        hashed == IF ~in.disableNameSuffixHash THEN Put(copied, NeedsHash, "true") ELSE copied
    IN  IF in.behavior # "" THEN Put(hashed, BehaviorKey, in.behavior) ELSE hashed

\* p is what parseInput returned
SecretFrom(p, in) ==
    IF p.err # nil THEN [secret |-> NoSecret, err |-> p.err, io |-> p.io]
    ELSE [secret |-> [apiVersion |-> "v1", kind |-> "Secret", name |-> in.name,
                      annotations |-> Annotations(in), data |-> p.data],
          err |-> nil, io |-> p.io]

GenerateSecret(in) == SecretFrom(ParseInput(in), in)

\* the output is the Secret that yaml.Marshal writes out
ProcessSopsSecretGenerator(manifest) ==
    IF ReadInput(manifest).err # nil
    THEN [secret |-> NoSecret, err |-> ReadInput(manifest).err, io |-> <<>>]
    ELSE GenerateSecret(manifest)

----------------------------------------------------------------------------
(* Values of the variables an operation does not use *)

NoParsed == [key |-> <<>>, fn |-> <<>>, err |-> nil]
NoDoc == [unmarshals |-> FALSE, apiVersion |-> "", kind |-> "", name |-> "",
          annotations |-> EmptyMap, behavior |-> "", disableNameSuffixHash |-> FALSE,
          envs |-> <<>>, files |-> <<>>]
NoResult == [secret |-> NoSecret, err |-> nil, io |-> <<>>]

FileNameIdle == source = <<>> /\ parsed = NoParsed
DotEnvIdle ==
    /\ content = <<>>
    /\ rest = <<>>
    /\ lineNum = 0
    /\ line = <<>>
    /\ data = EmptyMap
    /\ err = nil
DocIdle == doc = NoDoc /\ result = NoResult
BatchIdle ==
    /\ rl = [Items |-> <<>>, Results |-> <<>>]
    /\ input = <<>>
    /\ idx = 0
    /\ generatedSecrets = <<>>
    /\ calls = <<>>
    /\ ret = [ok |-> FALSE, err |-> nil]

fileNameVars == <<source, parsed>>
dotEnvVars == <<content, rest, lineNum, line, data, err>>
docVars == <<doc, result>>
batchVars == <<rl, input, idx, generatedSecrets, calls, ret>>

----------------------------------------------------------------------------
(* Specification SpecFileName: parseFileName on every short descriptor over
   '=', '/', '.', 'a' *)

NameBytes == {61, 47, 46, 97}

InitFileName ==
    /\ pc = "parseFileName"
    /\ source \in SeqsUpTo(NameBytes, MaxNameLen)
    /\ parsed = NoParsed
    /\ DotEnvIdle /\ DocIdle /\ BatchIdle

CallParseFileName ==
    /\ pc = "parseFileName"
    /\ parsed' = ParseFileName(source)
    /\ pc' = "done"
    /\ UNCHANGED <<source, dotEnvVars, docVars, batchVars>>

NextFileName == CallParseFileName

SpecFileName == InitFileName /\ [][NextFileName]_vars

----------------------------------------------------------------------------
(* Specification SpecDotEnv: parseDotEnvContent, one step per iteration of its
   scanner loop, on every content made of a few pieces *)

LongRun == <<<<65, MaxScanTokenSize>>>>

Pieces == {Runs(<<32>>), Runs(<<35>>), Runs(<<61>>), Runs(<<65>>), Runs(<<10>>),
           Runs(<<13>>), Runs(utf8bom), Runs(<<255>>), LongRun}

InitDotEnv ==
    /\ pc = "scan"
    /\ content \in {Concat(ps) : ps \in SeqsUpTo(Pieces, MaxPieces)}
    /\ rest = content
    /\ lineNum = 0
    /\ line = <<>>
    /\ data = EmptyMap
    /\ err = nil
    /\ FileNameIdle /\ DocIdle /\ BatchIdle

\* scanner.Scan() gave a line and parseDotEnvLine accepted it
ScanLine ==
    /\ pc = "scan"
    /\ Scan(rest).ok
    /\ LET s == Scan(rest)
           l == StripBOM(s.token, lineNum)
           r == ParseDotEnvLine(l, data)
       IN  /\ r.err = nil
           /\ line' = l
           /\ data' = r.data
           /\ lineNum' = lineNum + 1
           /\ rest' = s.rest
    /\ UNCHANGED <<pc, content, err, fileNameVars, docVars, batchVars>>

\* scanner.Scan() gave a line and parseDotEnvLine refused it
ScanLineError ==
    /\ pc = "scan"
    /\ Scan(rest).ok
    /\ LET s == Scan(rest)
           l == StripBOM(s.token, lineNum)
           r == ParseDotEnvLine(l, data)
       IN  /\ r.err # nil
           /\ line' = l
           /\ data' = r.data
           /\ err' = Wrap(r.err, "line", <<lineNum>>)
           /\ rest' = s.rest
    /\ pc' = "done"
    /\ UNCHANGED <<content, lineNum, fileNameVars, docVars, batchVars>>

\* scanner.Scan() gave no line: return scanner.Err()
ScanEnd ==
    /\ pc = "scan"
    /\ ~Scan(rest).ok
    /\ err' = Scan(rest).err
    /\ pc' = "done"
    /\ UNCHANGED <<content, rest, lineNum, line, data, fileNameVars, docVars, batchVars>>

NextDotEnv == ScanLine \/ ScanLineError \/ ScanEnd

SpecDotEnv == InitDotEnv /\ [][NextDotEnv]_vars

\* The loop taken step by step ends as parseDotEnvContent, the function, does
StepsAgree ==
    pc = "done" =>
        LET r == ParseDotEnvContent(content, EmptyMap) IN r.data = data /\ r.err = err

----------------------------------------------------------------------------
(* Specification Spec: processSopsSecretGenerator on one input document *)

EnvPaths == {AEnv, BEnv, CEnv, EEnv, XEnv, YYaml, JJson, IIni, TTxt}

FileDescs == {TTxt, <<65, 61>> \o TTxt, DTTxt, <<61>> \o TTxt, <<65, 61>>,
              <<65, 61, 66, 61>> \o TTxt, <<66, 61>> \o AEnv, <<65, 61>> \o XEnv,
              YYaml, <<74, 61>> \o JJson}

AnnotationKeys == {LocalConfig, Function, NeedsHash, BehaviorKey, "app"}

AnnotationSets == UNION {[K -> {"false"}] : K \in SUBSET AnnotationKeys}

\* documents that differ in what readInput and generateSecret look at
MetaDocs ==
    {[unmarshals |-> u, apiVersion |-> a, kind |-> k, name |-> n, annotations |-> an,
      behavior |-> b, disableNameSuffixHash |-> h, envs |-> src[1], files |-> src[2]] :
        u \in BOOLEAN, a \in {apiVersion, "v1"}, k \in {kind, "Secret"},
        n \in {"", "my-secret"}, an \in AnnotationSets, b \in {"", "merge"},
        h \in BOOLEAN,
        src \in {<<<<>>, <<>>>>, <<<<AEnv>>, <<TTxt>>>>, <<<<XEnv>>, <<>>>>}}

\* the envs and files of a document with max sources at most
SourcePairs(max) ==
    UNION {{<<e, f>> : e \in SeqsOfLen(EnvPaths, n),
                       f \in SeqsUpTo(FileDescs, max - n)} : n \in 0..max}

\* valid documents that differ in their sources
SourceDocs(max) ==
    {[unmarshals |-> TRUE, apiVersion |-> apiVersion, kind |-> kind, name |-> "my-secret",
      annotations |-> EmptyMap, behavior |-> "", disableNameSuffixHash |-> FALSE,
      envs |-> src[1], files |-> src[2]] : src \in SourcePairs(max)}

Init ==
    /\ pc = "process"
    /\ (doc \in MetaDocs \/ doc \in SourceDocs(MaxSources))
    /\ result = NoResult
    /\ FileNameIdle /\ DotEnvIdle /\ BatchIdle

\* r is what processSopsSecretGenerator returns for doc, and how is how it ended
Returns(r, how) ==
    /\ how = (IF ReadInput(doc).err # nil THEN "rejected"
              ELSE IF r.err # nil THEN "aborted" ELSE "generated")
    /\ result' = r
    /\ pc' = "done"
    /\ UNCHANGED <<doc, fileNameVars, dotEnvVars, batchVars>>

\* readInput returned an error
Reject == pc = "process" /\ Returns(ProcessSopsSecretGenerator(doc), "rejected")

\* generateSecret returned an error
Abort == pc = "process" /\ Returns(ProcessSopsSecretGenerator(doc), "aborted")

\* the Secret is returned
Generate == pc = "process" /\ Returns(ProcessSopsSecretGenerator(doc), "generated")

Next == Reject \/ Abort \/ Generate

Spec == Init /\ [][Next]_vars

----------------------------------------------------------------------------
(* Specification SpecBatch: generateKRMManifest, one step per iteration of its
   range loop, on resource lists of MaxDocs items at most *)

BatchDoc(n, a, k, e, f) ==
    [unmarshals |-> TRUE, apiVersion |-> a, kind |-> k, name |-> n,
     annotations |-> EmptyMap, behavior |-> "", disableNameSuffixHash |-> FALSE,
     envs |-> e, files |-> f]

BatchDocs ==
    {BatchDoc("s1", apiVersion, kind, <<>>, <<>>),
     BatchDoc("s2", apiVersion, kind, <<AEnv>>, <<TTxt>>),
     BatchDoc("s3", apiVersion, "Secret", <<AEnv>>, <<>>),
     BatchDoc("", apiVersion, kind, <<>>, <<TTxt>>),
     BatchDoc("s5", apiVersion, kind, <<XEnv>>, <<>>)}

InitBatch ==
    /\ pc = "range"
    /\ input \in SeqsUpTo(BatchDocs, MaxDocs)
    /\ rl = [Items |-> input, Results |-> <<>>]
    /\ idx = 0
    /\ generatedSecrets = <<>>
    /\ calls = <<>>
    /\ ret = [ok |-> FALSE, err |-> nil]
    /\ FileNameIdle /\ DotEnvIdle /\ DocIdle

\* the Secret takes the place of its document in rl.Items at once
AppendedInPlace(r) ==
    /\ r.err = nil
    /\ generatedSecrets' = Append(generatedSecrets, r.secret)
    /\ rl' = [rl EXCEPT !.Items[idx + 1] = r.secret]
    /\ calls' = Append(calls, rl.Items[idx + 1])
    /\ idx' = idx + 1
    /\ UNCHANGED <<pc, input, ret, fileNameVars, dotEnvVars, docVars>>

\* r is what processSopsSecretGenerator returned for the item of this iteration
Appended(r) ==
    /\ r.err = nil
    /\ generatedSecrets' = Append(generatedSecrets, r.secret)
    /\ calls' = Append(calls, rl.Items[idx + 1])
    /\ idx' = idx + 1
    /\ UNCHANGED <<pc, rl, input, ret, fileNameVars, dotEnvVars, docVars>>

FailedAndWentOn(e) ==
    /\ rl' = [rl EXCEPT !.Results = Append(@, e)]
    /\ calls' = Append(calls, rl.Items[idx + 1])
    /\ idx' = idx + 1
    /\ UNCHANGED <<pc, ret, input, generatedSecrets, fileNameVars, dotEnvVars, docVars>>

\* rl.LogResult(e); return false, e
Failed(e) ==
    /\ rl' = [rl EXCEPT !.Results = Append(@, e)]
    /\ ret' = [ok |-> FALSE, err |-> e]
    /\ calls' = Append(calls, rl.Items[idx + 1])
    /\ pc' = "returned"
    /\ UNCHANGED <<input, idx, generatedSecrets, fileNameVars, dotEnvVars, docVars>>

ProcessFailed(r) == r.err # nil /\ Failed(r.err)

ParseFailed(r) == r.err = nil /\ Failed(NewError("fn.ParseKubeObject", <<>>))

\* an iteration in which processSopsSecretGenerator and fn.ParseKubeObject succeed
ProcessItem ==
    /\ pc = "range"
    /\ idx < Len(rl.Items)
    /\ Appended(ProcessSopsSecretGenerator(rl.Items[idx + 1]))

\* an iteration in which processSopsSecretGenerator fails
ProcessItemFails ==
    /\ pc = "range"
    /\ idx < Len(rl.Items)
    /\ ProcessFailed(ProcessSopsSecretGenerator(rl.Items[idx + 1]))

\* an iteration in which fn.ParseKubeObject refuses the manifest of the Secret
ParseKubeObjectFails ==
    /\ pc = "range"
    /\ idx < Len(rl.Items)
    /\ ParseFailed(ProcessSopsSecretGenerator(rl.Items[idx + 1]))

\* the loop is over: rl.Items = generatedSecrets; return true, nil
Finish ==
    /\ pc = "range"
    /\ idx = Len(rl.Items)
    /\ rl' = [rl EXCEPT !.Items = generatedSecrets]
    /\ ret' = [ok |-> TRUE, err |-> nil]
    /\ pc' = "returned"
    /\ UNCHANGED <<input, idx, generatedSecrets, calls, fileNameVars, dotEnvVars, docVars>>

NextBatch == ProcessItem \/ ProcessItemFails \/ ParseKubeObjectFails \/ Finish

SpecBatch == InitBatch /\ [][NextBatch]_vars

----------------------------------------------------------------------------
(* Claims about parseFileName, under SpecFileName *)

\* k is the final path segment of the non-empty path s: the stretch between the last
\* '/' that has something other than '/' after it and the trailing '/'s; "/" when s
\* is all '/'s, "." when s is empty
IsFinalSegment(k, s) ==
    IF s = <<>> THEN k = <<46>>
    ELSE IF \A i \in 1..Len(s) : s[i] = 47 THEN k = <<47>>
    ELSE \E i \in 1..Len(s) : \E j \in i..Len(s) :
            /\ k = SubSeq(s, i, j)
            /\ \A m \in i..j : s[m] # 47
            /\ (i = 1 \/ s[i - 1] = 47)
            /\ \A m \in (j + 1)..Len(s) : s[m] = 47

\* C5: parseFileName depends only on the number of '=': none, the key is the final
\* path segment and the path the descriptor unchanged; one, the key is the text before
\* and the path the text after, with an error naming the missing side when either is
\* empty; two or more, the ambiguous-delimiter error.
C5_ParseFileName ==
    pc = "done" =>
        LET n == Count(source, 61)
            i == IF n = 1 THEN CHOOSE x \in 1..Len(source) : source[x] = 61 ELSE 0
            before == SubSeq(source, 1, i - 1)
            after == SubSeq(source, i + 1, Len(source))
        IN  /\ n = 0 =>
                /\ parsed.err = nil
                /\ parsed.fn = source
                /\ IsFinalSegment(parsed.key, source)
            /\ (n = 1 /\ before = <<>>) =>
                parsed.err = <<[msg |-> "key name for file path missing", arg |-> after]>>
            /\ (n = 1 /\ before # <<>> /\ after = <<>>) =>
                parsed.err = <<[msg |-> "file path for key name missing", arg |-> before]>>
            /\ (n = 1 /\ before # <<>> /\ after # <<>>) =>
                parsed.err = nil /\ parsed.key = before /\ parsed.fn = after
            /\ n >= 2 =>
                parsed.err = <<[msg |-> "key names or file paths cannot contain '='",
                                arg |-> <<>>]>>

\* the descriptor "a=.a" was split into key a, path .a
C5_Witness ==
    /\ pc = "done"
    /\ source = <<97, 61, 46, 97>>
    /\ parsed = [key |-> <<97>>, fn |-> <<46, 97>>, err |-> nil]

----------------------------------------------------------------------------
(* Claims about dotenv extraction, under SpecDotEnv *)

WhiteBytes == {9, 10, 11, 12, 13, 32}

\* the next line of the content, as a line of text: up to the newline, less the
\* carriage return of a CRLF line end
NextLineRuns == DropCR(RawLine(rest))

NextLineFits == RunLen(RawLine(rest)) < MaxScanTokenSize

\* that line as parseDotEnvLine is to see it: less the byte order mark on line 0
NextLine ==
    LET l == Expand(NextLineRuns)
    IN  IF lineNum = 0 /\ HasPrefix(l, utf8bom) THEN Drop(l, 3) ELSE l

\* blank, or '#' is the first byte that is no whitespace
BlankOrCommentRuns(runs) ==
    \/ \A i \in 1..Len(runs) : runs[i][1] \in WhiteBytes
    \/ \E i \in 1..Len(runs) :
          runs[i][1] = 35 /\ \A j \in 1..(i - 1) : runs[j][1] \in WhiteBytes

BlankOrComment(l) == BlankOrCommentRuns(Runs(l))

\* l without its leading whitespace
StripLeading(l) ==
    IF \A i \in 1..Len(l) : l[i] \in WhiteBytes THEN <<>>
    ELSE Drop(l, (CHOOSE i \in 1..Len(l) :
                     l[i] \notin WhiteBytes /\ \A j \in 1..(i - 1) : l[j] \in WhiteBytes) - 1)

FirstEq(l) ==
    IF \E i \in 1..Len(l) : l[i] = 61
    THEN CHOOSE i \in 1..Len(l) : l[i] = 61 /\ \A j \in 1..(i - 1) : l[j] # 61
    ELSE 0

\* this step stored exactly k -> v
Stored(k, v) ==
    /\ DOMAIN data' = (DOMAIN data) \cup {k}
    /\ data'[k] = v
    /\ \A x \in (DOMAIN data) \ {k} : data'[x] = data[x]
    /\ err' = nil
    /\ pc' = "scan"

Skipped == data' = data /\ err' = nil /\ pc' = "scan"

FailedWith(msg) ==
    /\ pc' = "done"
    /\ data' = data
    /\ Len(err') = 2
    /\ err'[1] = [msg |-> "line", arg |-> <<lineNum>>]
    /\ err'[2].msg = msg

\* C8 as claimed: a blank or comment line changes nothing and gives no error,
\* whatever its remaining bytes are.
C8_Original ==
    [][(/\ pc = "scan"
        /\ rest # <<>>
        /\ BlankOrCommentRuns(NextLineRuns)
        /\ NextLineFits) => Skipped]_vars

\* C8: a blank or comment line that is valid UTF-8 and shorter than the scanner's
\* token limit changes nothing and gives no error.
C8_CommentSkipped ==
    [][(/\ pc = "scan"
        /\ rest # <<>>
        /\ BlankOrCommentRuns(NextLineRuns)
        /\ NextLineFits
        /\ Utf8Valid(Expand(NextLineRuns))) => Skipped]_vars

\* the comment line "#=" was the second line, and nothing is stored
C8_Witness ==
    /\ pc = "scan"
    /\ lineNum = 2
    /\ line = <<35, 61>>
    /\ data = EmptyMap
    /\ err = nil

\* what C9 says of the line l
SplitOnFirstEq(l) ==
    LET t == StripLeading(l)
        i == FirstEq(t)
    IN  IF i = 0 THEN FailedWith("requires value")
        ELSE Stored(SubSeq(t, 1, i - 1), Base64(Drop(t, i)))

\* C9 as claimed: every line that is neither blank nor a comment is split on its
\* first '=' and stored untrimmed, or fails with "requires value" when it has none.
C9_Original ==
    [][(/\ pc = "scan"
        /\ rest # <<>>
        /\ NextLineFits
        /\ ~BlankOrComment(NextLine)) => SplitOnFirstEq(NextLine)]_vars

\* C9: every valid UTF-8 line that is neither blank nor a comment is split on its
\* first '=' and stored untrimmed, or fails with "requires value" when it has none.
C9_SplitOnFirstEq ==
    [][(/\ pc = "scan"
        /\ rest # <<>>
        /\ NextLineFits
        /\ Utf8Valid(NextLine)
        /\ ~BlankOrComment(NextLine)) => SplitOnFirstEq(NextLine)]_vars

\* the line "A==" stored A -> base64("=")
C9_Witness ==
    /\ line = <<65, 61, 61>>
    /\ data = (<<65>> :> <<80, 81, 61, 61>>)
    /\ err = nil

\* C10: a byte order mark opening line 0 is removed before the line is parsed; one
\* opening a later line is content of that line, and part of its key.
C10_BOMOnlyOnLineZero ==
    [][(/\ pc = "scan"
        /\ rest # <<>>
        /\ NextLineFits
        /\ HasPrefix(Expand(NextLineRuns), utf8bom)
        /\ Utf8Valid(Expand(NextLineRuns))) =>
            LET raw == Expand(NextLineRuns)
                t == Drop(raw, 3)
            IN  IF lineNum = 0
                THEN IF BlankOrComment(t) THEN Skipped ELSE SplitOnFirstEq(t)
                ELSE IF FirstEq(raw) = 0 THEN FailedWith("requires value")
                ELSE /\ Stored(SubSeq(raw, 1, FirstEq(raw) - 1),
                               Base64(Drop(raw, FirstEq(raw))))
                     /\ \E k \in DOMAIN data' : HasPrefix(k, utf8bom)]_vars

\* after an empty line 0, line 1 "<BOM>=" stored the mark as its key
C10_Witness ==
    /\ lineNum = 2
    /\ line = utf8bom \o <<61>>
    /\ data = (utf8bom :> <<>>)
    /\ err = nil

----------------------------------------------------------------------------
(* Claims about processSopsSecretGenerator, under Spec *)

Valid(d) == d.unmarshals /\ d.apiVersion = apiVersion /\ d.kind = kind /\ d.name # ""

\* the sources of a document in the order declared, envs before files
Sources(d) ==
    [i \in 1..(Len(d.envs) + Len(d.files)) |->
        IF i <= Len(d.envs) THEN [kind |-> "env source", src |-> d.envs[i]]
        ELSE [kind |-> "file source", src |-> d.files[i - Len(d.envs)]]]

\* what a source does taken alone
Alone(s) ==
    IF s.kind = "env source" THEN ParseEnvSource(s.src, EmptyMap)
    ELSE ParseFileSource(s.src, EmptyMap)

\* what the first n sources of d read, one after the other
IOUpTo(d, n) == Concat([i \in 1..n |-> Alone(Sources(d)[i]).io])

\* C1: a document whose apiVersion or kind differs from the expected one, or whose
\* name is empty, gets a validation error and no Secret, and none of its sources is
\* read or decrypted.
C1_RejectedBeforeDecryption ==
    (pc = "done" /\ (doc.apiVersion # apiVersion \/ doc.kind # kind \/ doc.name = "")) =>
        /\ result.err # nil
        /\ result.secret = NoSecret
        /\ result.io = <<>>
        /\ doc.unmarshals =>
              result.err[1].msg \in {"input must be apiVersion, kind",
                                     "input must contain metadata.name value"}

\* a well-typed document without a name, with an env and a file source, was rejected
C1_Witness ==
    /\ pc = "done"
    /\ doc.unmarshals /\ doc.apiVersion = apiVersion /\ doc.kind = kind /\ doc.name = ""
    /\ doc.envs = <<AEnv>>
    /\ doc.files = <<TTxt>>
    /\ result.err = <<[msg |-> "input must contain metadata.name value", arg |-> <<>>]>>
    /\ result.io = <<>>

\* C2: the sources are processed in the order declared, envs before files; at the
\* first one that fails no later source is read or decrypted, no Secret is returned,
\* and the error is that source's error wrapped with its source string.
C2_FailFastInOrder ==
    (pc = "done" /\ Valid(doc)) =>
        LET srcs == Sources(doc)
            bad == {i \in 1..Len(srcs) : Alone(srcs[i]).err # nil}
            first == CHOOSE i \in bad : \A j \in bad : i <= j
        IN  IF bad = {}
            THEN /\ result.err = nil
                 /\ result.secret.kind = "Secret"
                 /\ result.io = IOUpTo(doc, Len(srcs))
            ELSE /\ result.err = <<[msg |-> srcs[first].kind, arg |-> srcs[first].src]>>
                                    \o Alone(srcs[first]).err
                 /\ result.secret = NoSecret
                 /\ result.io = IOUpTo(doc, first)

\* a.env was read, c.env failed on its line 1, and t.txt was never read
C2_Witness ==
    /\ pc = "done"
    /\ doc.envs = <<AEnv, CEnv>>
    /\ doc.files = <<TTxt>>
    /\ result.err = <<[msg |-> "env source", arg |-> CEnv],
                      [msg |-> "line", arg |-> <<1>>],
                      [msg |-> "requires value", arg |-> <<66>>]>>
    /\ result.io = <<ReadFile(AEnv), Decrypt(AEnv), ReadFile(CEnv), Decrypt(CEnv)>>
    /\ result.secret = NoSecret

\* the key/value definitions of the lines of a dotenv text, in order
DotEnvPairs(text) ==
    LET lines == Split(text, 10)
        IsDef(i) == ~BlankOrComment(lines[i])
        Pair(i) == LET t == StripLeading(lines[i])
                   IN  <<SubSeq(t, 1, FirstEq(t) - 1), Drop(t, FirstEq(t))>>
        RECURSIVE From(_)
        From(i) == IF i > Len(lines) THEN <<>>
                   ELSE IF IsDef(i) THEN <<Pair(i)>> \o From(i + 1)
                   ELSE From(i + 1)
    IN  From(1)

\* the keys a source defines, each with the value its last definition there gives
Defines(s) ==
    IF s.kind = "file source"
    THEN LET i == FirstEq(s.src)
         IN  IF i = 0 THEN (ParseFileName(s.src).key :> FS[s.src].plain)
             ELSE (SubSeq(s.src, 1, i - 1) :> FS[Drop(s.src, i)].plain)
    ELSE IF HasSuffix(s.src, ExtEnv)
    THEN LET pairs == DotEnvPairs(FS[s.src].plain)
         IN  [k \in {pairs[i][1] : i \in 1..Len(pairs)} |->
                 pairs[CHOOSE i \in 1..Len(pairs) :
                          /\ pairs[i][1] = k
                          /\ \A j \in (i + 1)..Len(pairs) : pairs[j][1] # k][2]]
    ELSE IF HasSuffix(s.src, ExtYaml) THEN YAMLUnmarshal(FS[s.src].plain).d
    ELSE JSONUnmarshal(FS[s.src].plain).d

\* C3: all sources write into one key namespace and the last write wins: each key of
\* the output data holds base64 of the value its last-processed definition gives, and
\* a collision is never an error.
C3_LastWriteWins ==
    (pc = "done" /\ Valid(doc)) =>
        LET srcs == Sources(doc)
            Last(k) == CHOOSE i \in 1..Len(srcs) :
                          /\ k \in DOMAIN Defines(srcs[i])
                          /\ \A j \in (i + 1)..Len(srcs) : k \notin DOMAIN Defines(srcs[j])
        IN  /\ (\A i \in 1..Len(srcs) : Alone(srcs[i]).err = nil) => result.err = nil
            /\ result.err = nil =>
                  /\ DOMAIN result.secret.data =
                         UNION {DOMAIN Defines(srcs[i]) : i \in 1..Len(srcs)}
                  /\ \A k \in DOMAIN result.secret.data :
                         result.secret.data[k] = Base64(Defines(srcs[Last(k)])[k])

\* A, set to 2 by the last line of a.env that defines it, then to 3 by b.env, ends
\* as base64 of t.txt, "s\n", given by the file source A=t.txt
C3_Witness ==
    /\ pc = "done"
    /\ doc.envs = <<AEnv, BEnv>>
    /\ doc.files = <<<<65, 61>> \o TTxt>>
    /\ result.err = nil
    /\ result.secret.data = (<<65>> :> <<99, 119, 111, 61>>) @@ (<<66>> :> <<77, 81, 61, 61>>)

\* C6: the annotations of the Secret never hold config.kubernetes.io/local-config nor
\* config.kubernetes.io/function, and hold every other annotation key of the request.
C6_StrippedAnnotations ==
    (pc = "done" /\ result.err = nil) =>
        /\ LocalConfig \notin DOMAIN result.secret.annotations
        /\ Function \notin DOMAIN result.secret.annotations
        /\ \A k \in (DOMAIN doc.annotations) \ {LocalConfig, Function} :
               k \in DOMAIN result.secret.annotations

\* a request with both keys and "app", a behavior and the hash disabled, sources read
C6_Witness ==
    /\ pc = "done"
    /\ result.err = nil
    /\ DOMAIN doc.annotations = {LocalConfig, Function, "app"}
    /\ doc.behavior = "merge"
    /\ doc.disableNameSuffixHash
    /\ DOMAIN result.secret.annotations = {"app", BehaviorKey}
    /\ result.io # <<>>

\* C7 as claimed: needs-hash is "true" on the Secret when disableNameSuffixHash is
\* false, and absent when it is true, whatever annotations the request declares.
C7_Original ==
    (pc = "done" /\ result.err = nil) =>
        IF doc.disableNameSuffixHash
        THEN NeedsHash \notin DOMAIN result.secret.annotations
        ELSE /\ NeedsHash \in DOMAIN result.secret.annotations
             /\ result.secret.annotations[NeedsHash] = "true"

\* C7: needs-hash is "true" on the Secret when disableNameSuffixHash is false; when it
\* is true, needs-hash is absent unless the request declares that annotation, which is
\* then copied with the request's value.
C7_NeedsHash ==
    (pc = "done" /\ result.err = nil) =>
        IF ~doc.disableNameSuffixHash
        THEN /\ NeedsHash \in DOMAIN result.secret.annotations
             /\ result.secret.annotations[NeedsHash] = "true"
        ELSE IF NeedsHash \in DOMAIN doc.annotations
        THEN /\ NeedsHash \in DOMAIN result.secret.annotations
             /\ result.secret.annotations[NeedsHash] = doc.annotations[NeedsHash]
        ELSE NeedsHash \notin DOMAIN result.secret.annotations

\* the hash is disabled and the request declares needs-hash "false": the Secret has it
C7_Witness ==
    /\ pc = "done"
    /\ result.err = nil
    /\ doc.disableNameSuffixHash
    /\ doc.annotations = (NeedsHash :> "false")
    /\ result.secret.annotations = (NeedsHash :> "false")

----------------------------------------------------------------------------
(* Claims about generateKRMManifest, under SpecBatch *)

Fails(d) == ProcessSopsSecretGenerator(d).err # nil

\* C4: the documents are processed in order; at the first one that fails the function
\* returns (false, error), with that error once in the results and no later document
\* processed; when all succeed it returns (true, nil) and Items holds one Secret per
\* input document, in the order of the inputs.
C4_BatchStopsAtFirstFailure ==
    pc = "returned" =>
        /\ Len(calls) <= Len(input)
        /\ calls = SubSeq(input, 1, Len(calls))
        /\ \A i \in 1..(Len(calls) - 1) : ~Fails(input[i])
        /\ IF ret.ok
           THEN /\ ret.err = nil
                /\ rl.Results = <<>>
                /\ \A i \in 1..Len(input) : ~Fails(input[i])
                /\ Len(calls) = Len(input)
                /\ Len(rl.Items) = Len(input)
                /\ \A i \in 1..Len(input) :
                       rl.Items[i].kind = "Secret" /\ rl.Items[i].name = input[i].name
           ELSE /\ ret.err # nil
                /\ rl.Results = <<ret.err>>
                /\ Len(calls) >= 1
                /\ Fails(input[Len(calls)]) =>
                       ret.err = ProcessSopsSecretGenerator(input[Len(calls)]).err

\* of three documents the second, of the wrong kind, failed and the third was not
\* processed
C4_Witness ==
    /\ pc = "returned"
    /\ Len(input) = 3
    /\ input[2].kind # kind
    /\ Len(calls) = 2
    /\ ret = [ok |-> FALSE, err |-> <<[msg |-> "input must be apiVersion, kind", arg |-> <<>>]>>]
    /\ rl.Results = <<ret.err>>

\* three documents were turned into three Secrets, in their order
C4_WitnessAllSucceed ==
    /\ pc = "returned"
    /\ ret.ok
    /\ Len(input) = 3
    /\ <<input[1].name, input[2].name, input[3].name>> = <<"s2", "s1", "s2">>
    /\ <<rl.Items[1].name, rl.Items[2].name, rl.Items[3].name>> = <<"s2", "s1", "s2">>

----------------------------------------------------------------------------
(* Claims about the formats of env sources, under Spec *)

\* a dotenv text all of whose lines are blank, a comment, or hold an '='
WellFormedDotEnv(text) ==
    \A l \in {Split(text, 10)[i] : i \in 1..Len(Split(text, 10))} :
        Utf8Valid(l) /\ (BlankOrComment(l) \/ FirstEq(StripLeading(l)) # 0)

\* the keys and values of an INI text: those of i.ini, "[s]" then "I=6"
IniPairs(text) ==
    IF text = <<91, 115, 93, 10, 73, 61, 54>> THEN (<<73>> :> <<54>>) ELSE EmptyMap

\* the path is of one of the formats, sops decrypts the file, and its content is
\* well formed for the format
WellFormedEnv(p, formats) ==
    /\ FormatForPath(p) \in formats
    /\ p \in DOMAIN FS
    /\ FS[p].decrypts
    /\ CASE FormatForPath(p) = "Dotenv" -> WellFormedDotEnv(FS[p].plain)
         [] FormatForPath(p) = "Yaml" -> FS[p].plain = YamlPlain
         [] FormatForPath(p) = "Json" -> FS[p].plain = JsonPlain
         [] FormatForPath(p) = "Ini" -> IniPairs(FS[p].plain) # EmptyMap
         [] OTHER -> FALSE

\* the keys and values the file of an env source holds
EnvPairs(p) ==
    IF FormatForPath(p) = "Ini" THEN IniPairs(FS[p].plain)
    ELSE Defines([kind |-> "env source", src |-> p])

\* a document whose sources are env sources of these formats, all well formed, gets
\* a Secret whose data has the keys of the files, each with base64 of a value that a
\* file gives it
EnvSourcesWork(formats) ==
    (/\ pc = "done"
     /\ Valid(doc)
     /\ doc.files = <<>>
     /\ \A i \in 1..Len(doc.envs) : WellFormedEnv(doc.envs[i], formats)) =>
        /\ result.err = nil
        /\ DOMAIN result.secret.data =
               UNION {DOMAIN EnvPairs(doc.envs[i]) : i \in 1..Len(doc.envs)}
        /\ \A k \in DOMAIN result.secret.data :
               \E i \in 1..Len(doc.envs) :
                   /\ k \in DOMAIN EnvPairs(doc.envs[i])
                   /\ result.secret.data[k] = Base64(EnvPairs(doc.envs[i])[k])

\* C11: an env source whose path is of the dotenv, INI, YAML or JSON format, that
\* decrypts and whose content is well formed, is parsed without error and its
\* key/value pairs are added to the data, the values base64-encoded.
C11_Original == EnvSourcesWork({"Dotenv", "Ini", "Yaml", "Json"})

\* C11, for the formats parseEnvSource has a case for: dotenv, YAML and JSON
C11_DotenvYamlJson == EnvSourcesWork({"Dotenv", "Yaml", "Json"})

\* i.ini, a well-formed INI file that sops decrypts, was refused for its format
C11_IniRefused ==
    /\ pc = "done"
    /\ Valid(doc)
    /\ doc.envs = <<IIni>>
    /\ doc.files = <<>>
    /\ result.io = <<ReadFile(IIni), Decrypt(IIni)>>
    /\ result.err = <<[msg |-> "env source", arg |-> IIni],
                      [msg |-> "unknown file format, use dotenv, yaml or json",
                       arg |-> <<>>]>>

\* a.env, y.yaml and j.json were parsed, and their keys are in the data
C11_WitnessDotenvYamlJson ==
    /\ pc = "done"
    /\ doc.envs = <<JJson, AEnv, YYaml>>
    /\ doc.files = <<>>
    /\ result.err = nil
    /\ DOMAIN result.secret.data = {<<65>>, <<66>>, <<74>>}
    /\ result.secret.data[<<65>>] = Base64(<<52>>)

----------------------------------------------------------------------------
(* Claims about file sources, under Spec *)

\* the key and the path of a files entry with one '=' at most
FileKey(f) == IF FirstEq(f) = 0 THEN ParseFileName(f).key ELSE SubSeq(f, 1, FirstEq(f) - 1)

FilePath(f) == IF FirstEq(f) = 0 THEN f ELSE Drop(f, FirstEq(f))

\* C12: a file source is an opaque blob whatever its extension: each files entry
\* writes one entry, its key with base64 of the whole decrypted file, and no key found
\* in the content of the file is added, even for a dotenv, YAML or JSON path.
C12_FileSourceOpaque ==
    (pc = "done" /\ Valid(doc) /\ result.err = nil) =>
        LET env == ParseEnvSources(doc.envs, EmptyMap).data
            n == Len(doc.files)
            keys == {FileKey(doc.files[i]) : i \in 1..n}
            Last(k) == CHOOSE i \in 1..n :
                          /\ FileKey(doc.files[i]) = k
                          /\ \A j \in (i + 1)..n : FileKey(doc.files[j]) # k
        IN  /\ DOMAIN result.secret.data = (DOMAIN env) \cup keys
            /\ \A k \in keys :
                   result.secret.data[k] = Base64(FS[FilePath(doc.files[Last(k)])].plain)
            /\ \A k \in (DOMAIN env) \ keys : result.secret.data[k] = env[k]

\* B=a.env, y.yaml and J=j.json each gave one entry, base64 of the whole file, and
\* the keys A and B of the content of a.env, A of y.yaml were not extracted
C12_Witness ==
    /\ pc = "done"
    /\ doc.envs = <<>>
    /\ doc.files = <<<<66, 61>> \o AEnv, YYaml, <<74, 61>> \o JJson>>
    /\ result.err = nil
    /\ result.secret.data =
           (<<66>> :> Base64(<<65, 61, 49, 10, 65, 61, 50, 10, 66, 61, 49>>))
           @@ (YYaml :> Base64(YamlPlain))
           @@ (<<74>> :> Base64(JsonPlain))
    /\ <<65>> \notin DOMAIN result.secret.data

----------------------------------------------------------------------------
(* Claims about rl.Items, under SpecBatch *)

\* C13: when generateKRMManifest fails on a document, rl.Items is left as it was: it
\* holds the input documents, and none of the Secrets generated from the earlier
\* documents; rl.Items is replaced by the Secrets only once every document succeeded.
C13_ItemsUnchangedOnFailure ==
    /\ (pc = "returned" /\ ~ret.ok) =>
           /\ rl.Items = input
           /\ \A i \in 1..Len(generatedSecrets) :
                  \A j \in 1..Len(rl.Items) : rl.Items[j] # generatedSecrets[i]
    /\ rl.Items # input =>
           /\ pc = "returned" /\ ret.ok
           /\ rl.Items = generatedSecrets
           /\ Len(generatedSecrets) = Len(input)

\* two Secrets had been generated when the third document, whose x.env does not
\* exist, failed: rl.Items still holds the three documents
C13_Witness ==
    /\ pc = "returned"
    /\ ~ret.ok
    /\ Len(input) = 3
    /\ <<input[1].name, input[2].name, input[3].name>> = <<"s1", "s2", "s5">>
    /\ Len(generatedSecrets) = 2
    /\ generatedSecrets[2].kind = "Secret"
    /\ rl.Items = input
    /\ Len(rl.Results) = 1

====
